---- MODULE Spec2Model ----
(***************************************************************************)
(* Model of seawater/gibbs3/basic_sa_t_p.py: the TEOS-10 property          *)
(* functions of (SA, t, p) and the three modified Newton-Raphson           *)
(* inversions built on the Gibbs derivative oracle gibbs(ns,nt,np,SA,t,p). *)
(*                                                                         *)
(* Numbers.  An array element is a pair <<n, d>>: the rational n/d in      *)
(* lowest terms with d > 0, or the missing element <<0, 0>> (a masked      *)
(* element of a numpy masked array, which match_args_return hands back as  *)
(* NaN).  Arithmetic is exact: the rounding of IEEE doubles is not         *)
(* modelled, so an equality of the model is an equality of the formulas    *)
(* over the reals.  As numpy.ma does, every operation on a missing         *)
(* operand is missing, and a division by zero or a square root of a        *)
(* negative number gives a missing element instead of raising.             *)
(***************************************************************************)
EXTENDS Integers, Sequences, FiniteSets, TLC

VARIABLES orc, fn, pc, args, out, est, est0, slope, k, Ior, orig, aux, calls

vars == <<orc, fn, pc, args, out, est, est0, slope, k, Ior, orig, aux, calls>>

----------------------------------------------------------------------------
(* Element arithmetic *)

Abs(n) == IF n < 0 THEN -n ELSE n

RECURSIVE GCD(_, _)
GCD(a, b) == IF b = 0 THEN a ELSE GCD(b, a % b)

(* Numerators and denominators stay within Lim in absolute value; a result *)
(* beyond it is Ovf, a value outside the range of the model.               *)
Lim == 1073741823

Fits(a, b) == a = 0 \/ b = 0 \/ Abs(a) <= Lim \div Abs(b)

NaN == <<0, 0>>

Ovf == <<1, 0>>

IsNum(x) == x[2] # 0

IsOvf(x) == x = Ovf

(* the result of an operation one of whose operands is not a number *)
Bad(x, y) == IF IsOvf(x) \/ IsOvf(y) THEN Ovf ELSE NaN

Sign(d) == IF d < 0 THEN -1 ELSE 1

Reduce(n, d, g) == <<Sign(d) * (n \div g), Sign(d) * (d \div g)>>

Rat(n, d) == IF d = 0 THEN NaN ELSE Reduce(n, d, GCD(Abs(n), Abs(d)))

Num(n) == <<n, 1>>

Zero == Num(0)

One == Num(1)

Neg(x) == IF IsNum(x) THEN <<-x[1], x[2]>> ELSE x

Clip(r) == IF Abs(r[1]) <= Lim THEN r ELSE Ovf

(* x + y over the common denominator a * y[2] = b * x[2] *)
AddOver(x, y, a, b) ==
    IF Fits(a, y[2]) /\ Fits(x[1], b) /\ Fits(y[1], a)
    THEN Clip(Rat(x[1] * b + y[1] * a, a * y[2]))
    ELSE Ovf

AddBy(x, y, g) == AddOver(x, y, x[2] \div g, y[2] \div g)

Add(x, y) ==
    IF IsNum(x) /\ IsNum(y) THEN AddBy(x, y, GCD(x[2], y[2])) ELSE Bad(x, y)

Sub(x, y) == Add(x, Neg(y))

MulOver(n1, n2, d1, d2) ==
    IF Fits(n1, n2) /\ Fits(d1, d2) THEN <<n1 * n2, d1 * d2>> ELSE Ovf

MulBy(x, y, g1, g2) ==
    MulOver(x[1] \div g1, y[1] \div g2, x[2] \div g2, y[2] \div g1)

Mul(x, y) ==
    IF IsNum(x) /\ IsNum(y)
    THEN IF x[1] = 0 \/ y[1] = 0 THEN Zero
         ELSE MulBy(x, y, GCD(Abs(x[1]), y[2]), GCD(Abs(y[1]), x[2]))
    ELSE Bad(x, y)

(* numpy.ma division: a zero divisor gives a missing element *)
Div(x, y) ==
    IF IsNum(x) /\ IsNum(y)
    THEN IF y[1] = 0 THEN NaN
         ELSE Mul(x, IF y[1] < 0 THEN <<-y[2], -y[1]>> ELSE <<y[2], y[1]>>)
    ELSE Bad(x, y)

IsNeg(x) == IsNum(x) /\ x[1] < 0

Lt(x, y) == IsNeg(Sub(x, y))

Gt(x, y) == Lt(y, x)

RECURSIVE Pow(_, _)
Pow(x, n) ==
    IF n = 0 THEN One ELSE IF n = 1 THEN x ELSE Mul(x, Pow(x, n - 1))

(* a local name: F applied to the value e, which is written once *)
With(e, F(_)) == F(e)

----------------------------------------------------------------------------
(* The Gibbs derivative oracle (library.gibbs, an external collaborator).   *)
(* A pure function of its six arguments: a polynomial in (SA, t, p) whose   *)
(* partial derivative of orders (ns, nt, np) is returned.  orc selects the  *)
(* polynomial; it is fixed for a whole behaviour.  A term <<c, i, j, l>>    *)
(* stands for c * SA^i * t^j * p^l.                                         *)

BaseTerms ==
    << <<<<100, 1>>, 0, 0, 0>>,
       <<<<3, 1>>, 1, 0, 0>>,
       <<<<-2, 1>>, 0, 1, 0>>,
       <<<<-75, 1>>, 0, 2, 0>>,
       <<<<1, 20>>, 1, 1, 0>>,
       <<<<1, 1>>, 0, 0, 1>>,
       <<<<-1, 5000>>, 1, 0, 1>>,
       <<<<1, 1000>>, 0, 1, 1>>,
       <<<<-1, 8000>>, 0, 2, 1>>,
       <<<<-1, 200000>>, 1, 1, 1>>,
       <<<<-1, 2000000>>, 0, 0, 2>> >>

CurvedTerms ==
    << <<<<100, 1>>, 0, 0, 0>>,
       <<<<3, 1>>, 1, 0, 0>>,
       <<<<-2, 1>>, 0, 1, 0>>,
       <<<<-75, 1>>, 0, 2, 0>>,
       <<<<1, 20>>, 1, 1, 0>>,
       <<<<300, 1>>, 0, 0, 1>>,
       <<<<-6, 1>>, 1, 0, 1>>,
       <<<<1, 4>>, 2, 0, 1>>,
       <<<<1, 1000>>, 0, 1, 1>>,
       <<<<-1, 8000>>, 0, 2, 1>>,
       <<<<-1, 2000000>>, 0, 0, 2>> >>

FlatTerms ==
    << <<<<100, 1>>, 0, 0, 0>>,
       <<<<3, 1>>, 1, 0, 0>>,
       <<<<-75, 1>>, 0, 2, 0>>,
       <<<<-1, 5000>>, 1, 0, 1>> >>

(* no pressure dependence at SA = 0, and a constant that makes the initial *)
(* guess of osmotic_pressure_t_exact exact at SA = 40, t = 0               *)
TunedTerms ==
    << <<<<-3615, 1>>, 0, 0, 0>>,
       <<<<3, 1>>, 1, 0, 0>>,
       <<<<-75, 1>>, 0, 2, 0>>,
       <<<<1, 1000000>>, 2, 0, 1>>,
       <<<<1, 100>>, 1, 1, 1>>,
       <<<<1, 2000>>, 1, 0, 2>> >>

Oracles == {"affine", "curved", "flat", "tuned"}

Terms(o) ==
    CASE o = "affine" -> BaseTerms
      [] o = "curved" -> CurvedTerms
      [] o = "flat" -> FlatTerms
      [] o = "tuned" -> TunedTerms

Fall(n, m) == IF m = 0 THEN 1 ELSE IF m = 1 THEN n ELSE n * (n - 1)

DTerm(term, ns, nt, np, SA, t, p) ==
    IF term[2] < ns \/ term[3] < nt \/ term[4] < np THEN Zero
    ELSE IF \/ (term[2] > ns /\ SA = Zero)
            \/ (term[3] > nt /\ t = Zero)
            \/ (term[4] > np /\ p = Zero)
    THEN Zero
    ELSE Mul(Mul(Num(Fall(term[2], ns) * Fall(term[3], nt) * Fall(term[4], np)),
                 term[1]),
             Mul(Pow(SA, term[2] - ns),
                 Mul(Pow(t, term[3] - nt), Pow(p, term[4] - np))))

RECURSIVE SumTerms(_, _, _, _, _, _, _, _)
SumTerms(ts, i, ns, nt, np, SA, t, p) ==
    IF i > Len(ts) THEN Zero
    ELSE Add(DTerm(ts[i], ns, nt, np, SA, t, p),
             SumTerms(ts, i + 1, ns, nt, np, SA, t, p))

gibbs(ns, nt, np, SA, t, p) ==
    IF IsNum(SA) /\ IsNum(t) /\ IsNum(p)
    THEN SumTerms(Terms(orc), 1, ns, nt, np, SA, t, p)
    ELSE Bad(Bad(SA, t), p)

----------------------------------------------------------------------------
(* Constants and conversions imported from the sibling modules            *)
(* (constants, utilities, conversion).  The decimal constants are kept to  *)
(* the digits a small rational holds.                                       *)

Kelvin == Rat(5463, 20)

db2Pascal == Num(10000)

P0 == Num(101325)

SSO == Rat(439563, 12500)

cp0 == Rat(399187, 100)

R == Rat(8314, 1000)

sfac == Rat(1, 40)

M_S == Rat(157, 5000)

Half == Rat(1, 2)

(* pt_from_t(SA, t, p, p_ref): potential temperature of (SA, t, p) referred *)
(* to p_ref; it is t itself when p_ref = p.                                 *)
pt_from_t(SA, t, p, p_ref) ==
    IF IsNum(SA) THEN Sub(t, Mul(Rat(1, 10000), Sub(p, p_ref))) ELSE SA

pt0_from_t(SA, t, p) == pt_from_t(SA, t, p, Zero)

pt_from_CT(SA, CT) == Sub(CT, Mul(Rat(1, 1000), Sub(SA, SSO)))

molality_from_SA(SA) ==
    IF Lt(SA, Zero) THEN NaN
    ELSE Div(SA, Mul(M_S, Sub(Num(1000), SA)))

(* numpy.sqrt on an element: exact on the square of a rational, rounded    *)
(* down to a multiple of 1/SqrtScale otherwise, missing below zero.         *)
RECURSIVE ISqrtFrom(_, _)
ISqrtFrom(n, r) == IF (r + 1) * (r + 1) > n THEN r ELSE ISqrtFrom(n, r + 1)

RECURSIVE ISqrt(_)
ISqrt(n) ==
    IF n < 4 THEN ISqrtFrom(n, 0)
    ELSE ISqrtFrom(n, 2 * ISqrt(n \div 4))

IsSquare(n) == ISqrt(n) * ISqrt(n) = n

SqrtScale == 8

Sqrt(x) ==
    IF ~IsNum(x) THEN x
    ELSE IF x[1] < 0 THEN NaN
    ELSE IF IsSquare(x[1]) /\ IsSquare(x[2]) THEN <<ISqrt(x[1]), ISqrt(x[2])>>
    ELSE IF Fits(x[1], SqrtScale * SqrtScale)
    THEN Rat(ISqrt((x[1] * SqrtScale * SqrtScale) \div x[2]), SqrtScale)
    ELSE Ovf

----------------------------------------------------------------------------
(* Property functions, element by element *)

Helmholtz_energy_t_exact(SA, t, p) ==
    LET g000 == gibbs(0, 0, 0, SA, t, p)
        g001 == gibbs(0, 0, 1, SA, t, p)
    IN  Sub(g000, Mul(Add(Mul(db2Pascal, p), P0), g001))

(* rho_t_exact with the oracle asked for the wrong derivative *)
rho_t_exact_wrong_order(SA, t, p) == Div(One, gibbs(0, 0, 0, SA, t, p))

rho_t_exact(SA, t, p) == Div(One, gibbs(0, 0, 1, SA, t, p))

(* enthalpy_t_exact with the entropy term added the wrong way round *)
enthalpy_t_exact_plus(SA, t, p) ==
    LET g000 == gibbs(0, 0, 0, SA, t, p)
        g010 == gibbs(0, 1, 0, SA, t, p)
    IN  Add(g000, Mul(Add(t, Kelvin), g010))

enthalpy_t_exact(SA, t, p) ==
    LET g000 == gibbs(0, 0, 0, SA, t, p)
        g010 == gibbs(0, 1, 0, SA, t, p)
    IN  Sub(g000, Mul(Add(t, Kelvin), g010))

specvol_t_exact(SA, t, p) == gibbs(0, 0, 1, SA, t, p)

entropy_t_exact(SA, t, p) == Neg(gibbs(0, 1, 0, SA, t, p))

cp_t_exact(SA, t, p) == Mul(Neg(Add(t, Kelvin)), gibbs(0, 2, 0, SA, t, p))

(* sound_speed_t_exact with the ratio under the root upside down *)
sound_speed_t_exact_inverted(SA, t, p) ==
    LET g020 == gibbs(0, 2, 0, SA, t, p)
        g011 == gibbs(0, 1, 1, SA, t, p)
        g001 == gibbs(0, 0, 1, SA, t, p)
        g002 == gibbs(0, 0, 2, SA, t, p)
    IN  Mul(g001, Sqrt(Div(Sub(Pow(g011, 2), Mul(g020, g002)), g020)))

sound_speed_t_exact(SA, t, p) ==
    LET g020 == gibbs(0, 2, 0, SA, t, p)
        g011 == gibbs(0, 1, 1, SA, t, p)
        g001 == gibbs(0, 0, 1, SA, t, p)
        g002 == gibbs(0, 0, 2, SA, t, p)
    IN  Mul(g001, Sqrt(Div(g020, Sub(Pow(g011, 2), Mul(g020, g002)))))

specvol_anom_t_exact(SA, t, p) ==
    LET pt_zero == pt_from_CT(SSO, Zero)
        t_zero == pt_from_t(SSO, pt_zero, Zero, p)
    IN  Sub(gibbs(0, 0, 1, SA, t, p), gibbs(0, 0, 1, SSO, t_zero, p))

(* chem_potential_relative_t_exact with pure water special-cased to zero *)
chem_potential_relative_t_exact_pure_water(SA, t, p) ==
    IF SA = Zero THEN Zero ELSE gibbs(1, 0, 0, SA, t, p)

chem_potential_relative_t_exact(SA, t, p) == gibbs(1, 0, 0, SA, t, p)

internal_energy_t_exact(SA, t, p) ==
    LET g000 == gibbs(0, 0, 0, SA, t, p)
        g010 == gibbs(0, 1, 0, SA, t, p)
        g001 == gibbs(0, 0, 1, SA, t, p)
    IN  Sub(Sub(g000, Mul(Add(Kelvin, t), g010)),
            Mul(Add(Mul(db2Pascal, p), P0), g001))

kappa_const_t_exact(SA, t, p) ==
    LET g002 == gibbs(0, 0, 2, SA, t, p)
        g001 == gibbs(0, 0, 1, SA, t, p)
    IN  Div(Neg(g002), g001)

alpha_wrt_t_exact(SA, t, p) ==
    LET g011 == gibbs(0, 1, 1, SA, t, p)
        g001 == gibbs(0, 0, 1, SA, t, p)
    IN  Div(g011, g001)

(* isochoric_heat_cap_t_exact with the correction term added *)
isochoric_heat_cap_t_exact_plus(SA, t, p) ==
    LET g020 == gibbs(0, 2, 0, SA, t, p)
        g011 == gibbs(0, 1, 1, SA, t, p)
        g002 == gibbs(0, 0, 2, SA, t, p)
    IN  Mul(Neg(Add(Kelvin, t)), Add(g020, Div(Mul(g011, g011), g002)))

isochoric_heat_cap_t_exact(SA, t, p) ==
    LET g020 == gibbs(0, 2, 0, SA, t, p)
        g011 == gibbs(0, 1, 1, SA, t, p)
        g002 == gibbs(0, 0, 2, SA, t, p)
    IN  Mul(Neg(Add(Kelvin, t)), Sub(g020, Div(Mul(g011, g011), g002)))

(* kappa_t_exact with the leading minus sign of its docstring *)
kappa_t_exact_minus(SA, t, p) ==
    LET g020 == gibbs(0, 2, 0, SA, t, p)
        g011 == gibbs(0, 1, 1, SA, t, p)
        g002 == gibbs(0, 0, 2, SA, t, p)
        g001 == gibbs(0, 0, 1, SA, t, p)
    IN  Neg(Div(Sub(Pow(g011, 2), Mul(g020, g002)), Mul(g001, g020)))

kappa_t_exact(SA, t, p) ==
    LET g020 == gibbs(0, 2, 0, SA, t, p)
        g011 == gibbs(0, 1, 1, SA, t, p)
        g002 == gibbs(0, 0, 2, SA, t, p)
        g001 == gibbs(0, 0, 1, SA, t, p)
    IN  Div(Sub(Pow(g011, 2), Mul(g020, g002)), Mul(g001, g020))

(* pot_rho_t_exact with the density taken at p instead of p_ref *)
pot_rho_t_exact_at_p(SA, t, p, p_ref) ==
    LET pt == pt_from_t(SA, t, p, p_ref)
    IN  rho_t_exact(SA, pt, p)

(* pot_rho_t_exact with p_ref not handed on to pt_from_t *)
pot_rho_t_exact_pt0(SA, t, p, p_ref) ==
    LET pt == pt_from_t(SA, t, p, Zero)
    IN  rho_t_exact(SA, pt, p_ref)

pot_rho_t_exact(SA, t, p, p_ref) ==
    LET pt == pt_from_t(SA, t, p, p_ref)
    IN  rho_t_exact(SA, pt, p_ref)

alpha_wrt_CT_t_exact(SA, t, p) ==
    LET pt0 == pt0_from_t(SA, t, p)
        factor == Div(Neg(cp0), Mul(Add(Kelvin, pt0), gibbs(0, 2, 0, SA, t, p)))
        g011 == gibbs(0, 1, 1, SA, t, p)
        g001 == gibbs(0, 0, 1, SA, t, p)
    IN  Mul(factor, Div(g011, g001))

alpha_wrt_pt_t_exact(SA, t, p) ==
    LET pt0 == pt0_from_t(SA, t, p)
        factor == Div(gibbs(0, 2, 0, SA, pt0, Zero), gibbs(0, 2, 0, SA, t, p))
        g011 == gibbs(0, 1, 1, SA, t, p)
        g001 == gibbs(0, 0, 1, SA, t, p)
    IN  Mul(factor, Div(g011, g001))

beta_const_CT_t_exact(SA, t, p) ==
    LET pt0 == pt0_from_t(SA, t, p)
        g001 == gibbs(0, 0, 1, SA, t, p)
        g110 == gibbs(1, 1, 0, SA, t, p)
        g100 == gibbs(1, 0, 0, SA, pt0, Zero)
        factora == Sub(g110, Div(g100, Add(Kelvin, pt0)))
        g020 == gibbs(0, 2, 0, SA, t, p)
        factor == Div(factora, Mul(g001, g020))
        g011 == gibbs(0, 1, 1, SA, t, p)
        g101 == gibbs(1, 0, 1, SA, t, p)
    IN  Sub(Mul(g011, factor), Div(g101, g001))

beta_const_pt_t_exact(SA, t, p) ==
    LET pt0 == pt0_from_t(SA, t, p)
        g001 == gibbs(0, 0, 1, SA, t, p)
        g110 == gibbs(1, 1, 0, SA, t, p)
        factora == Sub(g110, gibbs(1, 1, 0, SA, pt0, Zero))
        g020 == gibbs(0, 2, 0, SA, t, p)
        factor == Div(factora, Mul(g001, g020))
        g011 == gibbs(0, 1, 1, SA, t, p)
        g101 == gibbs(1, 0, 1, SA, t, p)
    IN  Sub(Mul(g011, factor), Div(g101, g001))

beta_const_t_exact(SA, t, p) ==
    LET g101 == gibbs(1, 0, 1, SA, t, p)
        g001 == gibbs(0, 0, 1, SA, t, p)
    IN  Div(Neg(g101), g001)

(* strip_mask: the inputs with their missing elements filled, and the mask *)
Filled(x) == IF IsNum(x) \/ IsOvf(x) THEN x ELSE Zero

strip_mask(SA, t, p) ==
    <<Filled(SA), Filled(t), Filled(p), SA = NaN \/ t = NaN \/ p = NaN>>

(* The polynomials inlined in chem_potential_water_t_exact, cut to their   *)
(* leading terms (second order in y and z, third in x) with the            *)
(* coefficients rounded to integers.                                        *)
g03_g(y, z) ==
    Add(Add(Num(101), Mul(z, Add(Num(100016), Mul(z, Num(-2545))))),
        Mul(y, Add(Add(Num(6), Mul(z, Num(-271))), Mul(y, Num(-12358)))))

g08_g(x2, x, y, z) ==
    Mul(x2, Add(Add(Num(1416),
                    Mul(x, Add(Add(Add(Num(-2432), Mul(x, Num(2026))),
                                   Mul(z, Num(199))),
                               Mul(y, Num(-493))))),
                Mul(y, Num(168))))

g_SA_part(x, y, z) ==
    Add(Add(Num(8645),
            Mul(x, Add(Add(Add(Num(-7296), Mul(x, Num(8103))),
                           Mul(z, Num(598))),
                       Mul(y, Num(-1480))))),
        Mul(y, Num(1187)))

(* np.ma.array with the mask left out *)
MaskedArray_unmasked(value, mask) == value

MaskedArray(value, mask) == IF mask THEN NaN ELSE value

(* chem_potential_water_t_exact with the factor 0.5 of the salinity term  *)
(* left out                                                                 *)
chem_potential_water_t_exact_no_half(SA0, t0, p0) ==
    LET sm == strip_mask(SA0, t0, p0)
        SA == sm[1]
        t == sm[2]
        p == sm[3]
        mask == sm[4]
        x2 == Mul(sfac, SA)
        x == Sqrt(x2)
        y == Mul(t, Rat(25, 1000))
        z == Mul(p, Rat(1, 10000))
        chem_potential_water ==
            Sub(Add(g03_g(y, z), g08_g(x2, x, y, z)),
                Mul(Mul(sfac, SA), g_SA_part(x, y, z)))
    IN  MaskedArray(chem_potential_water, mask)

chem_potential_water_t_exact(SA0, t0, p0) ==
    LET sm == strip_mask(SA0, t0, p0)
        SA == sm[1]
        t == sm[2]
        p == sm[3]
        mask == sm[4]
        x2 == Mul(sfac, SA)
        x == Sqrt(x2)
        y == Mul(t, Rat(25, 1000))
        z == Mul(p, Rat(1, 10000))
        chem_potential_water ==
            Sub(Add(g03_g(y, z), g08_g(x2, x, y, z)),
                Mul(Mul(Mul(Half, sfac), SA), g_SA_part(x, y, z)))
    IN  MaskedArray(chem_potential_water, mask)

(* chem_potential_salt_t_exact with the water part subtracted *)
chem_potential_salt_t_exact_minus(SA, t, p) ==
    Sub(chem_potential_relative_t_exact(SA, t, p),
        chem_potential_water_t_exact(SA, t, p))

chem_potential_salt_t_exact(SA, t, p) ==
    Add(chem_potential_relative_t_exact(SA, t, p),
        chem_potential_water_t_exact(SA, t, p))

adiabatic_lapse_rate_t_exact(SA, t, p) ==
    LET g011 == gibbs(0, 1, 1, SA, t, p)
        g020 == gibbs(0, 2, 0, SA, t, p)
    IN  Div(Neg(g011), g020)

(* osmotic_coefficient_t_exact with a zero divisor answered by zero *)
osmotic_coefficient_t_exact_guarded(SA, t, p) ==
    LET molal == molality_from_SA(SA)
        part == Mul(Mul(molal, R), Add(Kelvin, t))
        g000 == gibbs(0, 0, 0, Zero, t, p)
    IN  IF part = Zero THEN Zero
        ELSE Div(Sub(g000, chem_potential_water_t_exact(SA, t, p)), part)

osmotic_coefficient_t_exact(SA, t, p) ==
    LET molal == molality_from_SA(SA)
        part == Mul(Mul(molal, R), Add(Kelvin, t))
        SAzero == Zero
        g000 == gibbs(0, 0, 0, SAzero, t, p)
    IN  Div(Sub(g000, chem_potential_water_t_exact(SA, t, p)), part)

(* The names bound in the module's namespace: its imports and its own      *)
(* functions.  A name a function body uses and this set lacks raises       *)
(* NameError when the body runs.                                            *)
ModuleNames ==
    {"np", "gibbs", "match_args_return", "strip_mask", "sfac",
     "Kelvin", "db2Pascal", "P0", "SSO", "cp0", "R",
     "pt_from_CT", "pt_from_t", "pt0_from_t", "molality_from_SA",
     "Helmholtz_energy_t_exact", "rho_t_exact", "enthalpy_t_exact",
     "specvol_t_exact", "entropy_t_exact", "cp_t_exact",
     "sound_speed_t_exact", "specvol_anom_t_exact",
     "chem_potential_relative_t_exact", "internal_energy_t_exact",
     "kappa_const_t_exact", "alpha_wrt_t_exact",
     "isochoric_heat_cap_t_exact", "kappa_t_exact", "SA_from_rho_t_exact",
     "pot_rho_t_exact", "alpha_wrt_CT_t_exact", "alpha_wrt_pt_t_exact",
     "beta_const_CT_t_exact", "beta_const_pt_t_exact", "beta_const_t_exact",
     "chem_potential_water_t_exact", "chem_potential_salt_t_exact",
     "adiabatic_lapse_rate_t_exact", "osmotic_coefficient_t_exact",
     "dynamic_enthalpy_t_exact", "t_maxdensity_exact",
     "osmotic_pressure_t_exact"}

(* Conservative Temperature of (SA, t, p), as conversion.CT_from_t gives it *)
CT_from_t(SA, t, p) ==
    Div(enthalpy_t_exact(SA, pt0_from_t(SA, t, p), Zero), cp0)

dynamic_enthalpy_t_exact(SA, t, p) ==
    LET CT == CT_from_t(SA, t, p)
    IN  Sub(enthalpy_t_exact(SA, t, p), Mul(cp0, CT))

----------------------------------------------------------------------------
(* SA_from_rho_t_exact, element by element *)

(* one loop pass more than range(0, 2) makes *)
SA_from_rho_rounds_extra == 2 + 1

SA_from_rho_rounds == 2

(* SA_from_rho_init with the interpolation run from the SA = 120 end: 0 *)
(* at v_120 and 120 at v_0                                               *)
SA_from_rho_init_reversed(rho, t, p) ==
    With(Div(One, rho), LAMBDA v_lab :
    With(gibbs(0, 0, 1, Zero, t, p), LAMBDA v_0 :
    With(gibbs(0, 0, 1, Num(120), t, p), LAMBDA v_120 :
    With(Div(Mul(Num(120), Sub(v_lab, v_120)), Sub(v_0, v_120)), LAMBDA SA :
    <<v_lab, SA, Lt(SA, Zero) \/ Gt(SA, Num(120)),
      Div(Sub(v_120, v_0), Num(120))>>))))

(* SA_from_rho_init with the flag raised above 120 only *)
SA_from_rho_init_upper(rho, t, p) ==
    With(Div(One, rho), LAMBDA v_lab :
    With(gibbs(0, 0, 1, Zero, t, p), LAMBDA v_0 :
    With(gibbs(0, 0, 1, Num(120), t, p), LAMBDA v_120 :
    With(Div(Mul(Num(120), Sub(v_lab, v_0)), Sub(v_120, v_0)), LAMBDA SA :
    <<v_lab, SA, Gt(SA, Num(120)), Div(Sub(v_120, v_0), Num(120))>>))))

(* lines 1008-1013: <<v_lab, initial SA, Ior, initial v_SA>> *)
SA_from_rho_init(rho, t, p) ==
    With(Div(One, rho), LAMBDA v_lab :
    With(gibbs(0, 0, 1, Zero, t, p), LAMBDA v_0 :
    With(gibbs(0, 0, 1, Num(120), t, p), LAMBDA v_120 :
    With(Div(Mul(Num(120), Sub(v_lab, v_0)), Sub(v_120, v_0)), LAMBDA SA :
    <<v_lab, SA, Lt(SA, Zero) \/ Gt(SA, Num(120)),
      Div(Sub(v_120, v_0), Num(120))>>))))

(* SA_from_rho_round returning the half-way estimate of line 1019 *)
SA_from_rho_round_half(SA_old, v_SA, v_lab, t, p) ==
    With(Sub(gibbs(0, 0, 1, SA_old, t, p), v_lab), LAMBDA delta_v :
    With(Sub(SA_old, Div(delta_v, v_SA)), LAMBDA SA_half :
    With(Mul(Half, Add(SA_half, SA_old)), LAMBDA SA_mean :
    With(gibbs(1, 0, 1, SA_mean, t, p), LAMBDA v_SA_new :
    <<SA_half, v_SA_new>>))))

(* SA_from_rho_round with the residual taken again at the half-way      *)
(* estimate for the second step                                          *)
SA_from_rho_round_residual_twice(SA_old, v_SA, v_lab, t, p) ==
    With(Sub(gibbs(0, 0, 1, SA_old, t, p), v_lab), LAMBDA delta_v :
    With(Sub(SA_old, Div(delta_v, v_SA)), LAMBDA SA_half :
    With(Mul(Half, Add(SA_half, SA_old)), LAMBDA SA_mean :
    With(gibbs(1, 0, 1, SA_mean, t, p), LAMBDA v_SA_new :
    <<Sub(SA_old, Div(Sub(gibbs(0, 0, 1, SA_half, t, p), v_lab), v_SA_new)),
      v_SA_new>>))))

(* SA_from_rho_round with v_lab not taken off the residual *)
SA_from_rho_round_no_lab(SA_old, v_SA, v_lab, t, p) ==
    With(gibbs(0, 0, 1, SA_old, t, p), LAMBDA delta_v :
    With(Sub(SA_old, Div(delta_v, v_SA)), LAMBDA SA_half :
    With(Mul(Half, Add(SA_half, SA_old)), LAMBDA SA_mean :
    With(gibbs(1, 0, 1, SA_mean, t, p), LAMBDA v_SA_new :
    <<Sub(SA_old, Div(delta_v, v_SA_new)), v_SA_new>>))))

(* lines 1016-1022, one pass of the loop body: <<SA, v_SA>> *)
(* SA_from_rho_round with the density 1 / v_lab taken off the specific   *)
(* volume in the residual                                                  *)
SA_from_rho_round_rho_lab(SA_old, v_SA, v_lab, t, p) ==
    With(Sub(gibbs(0, 0, 1, SA_old, t, p), Div(One, v_lab)), LAMBDA delta_v :
    With(Sub(SA_old, Div(delta_v, v_SA)), LAMBDA SA_half :
    With(Mul(Half, Add(SA_half, SA_old)), LAMBDA SA_mean :
    With(gibbs(1, 0, 1, SA_mean, t, p), LAMBDA v_SA_new :
    <<Sub(SA_old, Div(delta_v, v_SA_new)), v_SA_new>>))))

SA_from_rho_round(SA_old, v_SA, v_lab, t, p) ==
    With(Sub(gibbs(0, 0, 1, SA_old, t, p), v_lab), LAMBDA delta_v :
    With(Sub(SA_old, Div(delta_v, v_SA)), LAMBDA SA_half :
    With(Mul(Half, Add(SA_half, SA_old)), LAMBDA SA_mean :
    With(gibbs(1, 0, 1, SA_mean, t, p), LAMBDA v_SA_new :
    <<Sub(SA_old, Div(delta_v, v_SA_new)), v_SA_new>>))))

(* the mask taken from the salinity the loop ended on *)
SA_from_rho_mask_final(SA, Ior_) ==
    IF Lt(SA, Zero) \/ Gt(SA, Num(120)) THEN NaN ELSE SA

(* line 1024 *)
SA_from_rho_mask(SA, Ior_) == IF Ior_ THEN NaN ELSE SA

----------------------------------------------------------------------------
(* t_maxdensity_exact, element by element *)

t_maxdensity_rounds == 3

dt == Rat(1, 1000)

(* lines 1807-1808: <<initial t, initial gibbs_PTT>> *)
t_maxdensity_init(SA, p) ==
    <<Sub(Rat(3978, 1000), Mul(Rat(22072, 100000), SA)),
      Rat(11, 1000000000)>>

(* lines 1811-1818 *)
t_maxdensity_round(t_old, gibbs_PTT, SA, p) ==
    With(gibbs(0, 1, 1, SA, t_old, p), LAMBDA gibbs_PT :
    With(Sub(t_old, Div(gibbs_PT, gibbs_PTT)), LAMBDA t_half :
    With(Mul(Half, Add(t_half, t_old)), LAMBDA t_mean :
    With(Div(Sub(gibbs(0, 1, 1, SA, Add(t_mean, dt), p),
                 gibbs(0, 1, 1, SA, Sub(t_mean, dt), p)),
             Add(dt, dt)), LAMBDA gibbs_PTT_new :
    <<Sub(t_old, Div(gibbs_PT, gibbs_PTT_new)), gibbs_PTT_new>>))))

----------------------------------------------------------------------------
(* osmotic_pressure_t_exact, element by element *)

osmotic_pressure_rounds == 2

df_dp_at(SA, t, p) ==
    Mul(Neg(db2Pascal),
        Sub(gibbs(0, 0, 1, SA, t, p), Mul(SA, gibbs(1, 0, 1, SA, t, p))))

(* lines 1868-1875: <<gibbs_pure_water, initial p, initial df_dp>> *)
(* osmotic_pressure_init with the pure-water value taken at the sample's *)
(* own salinity                                                            *)
osmotic_pressure_init_at_SA(SA, t, pw) ==
    With(gibbs(0, 0, 0, SA, t, pw), LAMBDA gibbs_pure_water :
    With(Add(pw, Rat(2354684, 10000)), LAMBDA p :
    <<gibbs_pure_water, p, df_dp_at(SA, t, p)>>))

osmotic_pressure_init(SA, t, pw) ==
    With(gibbs(0, 0, 0, Zero, t, pw), LAMBDA gibbs_pure_water :
    With(Add(pw, Rat(2354684, 10000)), LAMBDA p :
    <<gibbs_pure_water, p, df_dp_at(SA, t, p)>>))

(* lines 1878-1885 *)
osmotic_pressure_round(p_old, df_dp, gibbs_pure_water, SA, t) ==
    With(Sub(gibbs_pure_water, chem_potential_water_t_exact(SA, t, p_old)),
         LAMBDA f :
    With(Sub(p_old, Div(f, df_dp)), LAMBDA p_half :
    With(Mul(Half, Add(p_half, p_old)), LAMBDA p_mean :
    With(df_dp_at(SA, t, p_mean), LAMBDA df_dp_new :
    <<Sub(p_old, Div(f, df_dp_new)), df_dp_new>>))))

----------------------------------------------------------------------------
(* Arrays.  Every function is applied through match_args_return, which     *)
(* turns its arguments into masked arrays of one shape and applies the     *)
(* body element by element.  An array is a sequence of ArrLen elements.    *)

ArrLen == 2

Idx == 1 .. ArrLen

(* the states (SA, t, p) a call may be given, in and out of physical range *)
ElemSamples ==
    { <<Num(0), Num(4), Num(0)>>,
      <<Num(10), Num(10), Num(1000)>>,
      <<Num(42), Num(40), Num(10000)>>,
      <<Num(48), Num(10), Num(1000)>>,
      <<Num(160), Num(10), Num(1000)>>,
      <<NaN, Num(10), Num(1000)>>,
      <<Num(10), NaN, Num(1000)>>,
      <<Num(10), Num(10), NaN>> }

(* the measurements (rho, t, p) SA_from_rho_t_exact may be given directly *)
RhoSamples ==
    { <<Rat(400, 399), Num(10), Num(0)>>,
      <<Rat(400, 387), Num(10), Num(0)>>,
      <<Rat(1, 264), Num(0), Num(0)>>,
      <<Num(0), Num(10), Num(0)>>,
      <<NaN, Num(10), Num(1000)>> }

(* the states (SA, t, pw) osmotic_pressure_t_exact may be given *)
OsmSamples ==
    { <<Num(0), Num(0), Num(0)>>,
      <<Num(10), Num(0), Num(0)>>,
      <<Num(10), Num(10), Num(1000)>>,
      <<Num(40), Num(0), Rat(-2354684, 10000)>>,
      <<Num(40), Num(0), Rat(7645316, 10000)>>,
      <<NaN, Num(10), Num(0)>>,
      <<Num(10), Num(10), NaN>> }

PRefSamples == {Num(0), Num(1000)}

Col(f, j) == [i \in Idx |-> f[i][j]]

Inputs(S) == {<<Col(f, 1), Col(f, 2), Col(f, 3)>> : f \in [Idx -> S]}

Const(x) == [i \in Idx |-> x]

Map3(F(_, _, _), a) == [i \in Idx |-> F(a[1][i], a[2][i], a[3][i])]

InRange(arr) == \A i \in Idx : ~IsOvf(arr[i])

(* line 1030: p_ref=0 *)
p_ref_default == Zero

(* The oracle calls of a call, in the order the body makes them: each is  *)
(* <<n_SA, n_t, n_p, SA, t, p>>, the three derivative orders and the       *)
(* state arrays handed to gibbs.  a is the argument arrays of the caller.  *)
Own(ns, nt, np, a) == <<ns, nt, np, a[1], a[2], a[3]>>

(* the state (SA, pt0, 0) of lines 1140, 1202, 1265 and 1335 *)
AtSurface(ns, nt, np, a) ==
    <<ns, nt, np, a[1], Map3(pt0_from_t, a), Const(Zero)>>

(* alpha_wrt_CT_t_exact_calls with g_TT taken at the surface state, as   *)
(* alpha_wrt_pt_t_exact takes it                                           *)
alpha_wrt_CT_t_exact_calls_surface(a) ==
    <<AtSurface(0, 2, 0, a), Own(0, 1, 1, a), Own(0, 0, 1, a)>>

alpha_wrt_CT_t_exact_calls(a) ==
    <<Own(0, 2, 0, a), Own(0, 1, 1, a), Own(0, 0, 1, a)>>

alpha_wrt_pt_t_exact_calls(a) ==
    <<AtSurface(0, 2, 0, a), Own(0, 2, 0, a), Own(0, 1, 1, a),
      Own(0, 0, 1, a)>>

beta_const_CT_t_exact_calls(a) ==
    <<Own(0, 0, 1, a), Own(1, 1, 0, a), AtSurface(1, 0, 0, a),
      Own(0, 2, 0, a), Own(0, 1, 1, a), Own(1, 0, 1, a)>>

beta_const_pt_t_exact_calls(a) ==
    <<Own(0, 0, 1, a), Own(1, 1, 0, a), AtSurface(1, 1, 0, a),
      Own(0, 2, 0, a), Own(0, 1, 1, a), Own(1, 0, 1, a)>>

(* line 1702: SAzero = 0 broadcast against t and p *)
osmotic_coefficient_t_exact_calls(a) ==
    << <<0, 0, 0, Const(Zero), a[2], a[3]>> >>

(* line 571: the second call is at (SSO, t_zero, p) *)
specvol_anom_t_exact_calls(a) ==
    <<Own(0, 0, 1, a),
      <<0, 0, 1, Const(SSO),
        [i \in Idx |-> pt_from_t(SSO, pt_from_CT(SSO, Zero), Zero, a[3][i])],
        a[3]>> >>

(* lines 1083-1085: rho_t_exact(SA, pt, p_ref), line 212 *)
pot_rho_t_exact_calls(a) ==
    << <<0, 0, 1, a[1],
         [i \in Idx |->
            pt_from_t(a[1][i], a[2][i], a[3][i],
                      IF a[4] = <<>> THEN p_ref_default ELSE a[4][i])],
         IF a[4] = <<>> THEN Const(p_ref_default) ELSE a[4]>> >>

enthalpy_t_exact_calls(a) == <<Own(0, 0, 0, a), Own(0, 1, 0, a)>>

gibbs_calls(name, a) ==
    CASE name = "Helmholtz_energy_t_exact" ->
            <<Own(0, 0, 0, a), Own(0, 0, 1, a)>>
      [] name \in {"rho_t_exact", "specvol_t_exact"} -> <<Own(0, 0, 1, a)>>
      [] name = "enthalpy_t_exact" -> enthalpy_t_exact_calls(a)
      [] name = "entropy_t_exact" -> <<Own(0, 1, 0, a)>>
      [] name = "cp_t_exact" -> <<Own(0, 2, 0, a)>>
      [] name = "sound_speed_t_exact" ->
            <<Own(0, 2, 0, a), Own(0, 1, 1, a), Own(0, 0, 1, a),
              Own(0, 0, 2, a)>>
      [] name = "specvol_anom_t_exact" -> specvol_anom_t_exact_calls(a)
      [] name = "chem_potential_relative_t_exact" -> <<Own(1, 0, 0, a)>>
      [] name = "internal_energy_t_exact" ->
            <<Own(0, 0, 0, a), Own(0, 1, 0, a), Own(0, 0, 1, a)>>
      [] name = "kappa_const_t_exact" -> <<Own(0, 0, 2, a), Own(0, 0, 1, a)>>
      [] name = "alpha_wrt_t_exact" -> <<Own(0, 1, 1, a), Own(0, 0, 1, a)>>
      [] name = "isochoric_heat_cap_t_exact" ->
            <<Own(0, 2, 0, a), Own(0, 1, 1, a), Own(0, 0, 2, a)>>
      [] name = "kappa_t_exact" ->
            <<Own(0, 2, 0, a), Own(0, 1, 1, a), Own(0, 0, 2, a),
              Own(0, 0, 1, a)>>
      [] name = "pot_rho_t_exact" -> pot_rho_t_exact_calls(a)
      [] name = "alpha_wrt_CT_t_exact" -> alpha_wrt_CT_t_exact_calls(a)
      [] name = "alpha_wrt_pt_t_exact" -> alpha_wrt_pt_t_exact_calls(a)
      [] name = "beta_const_CT_t_exact" -> beta_const_CT_t_exact_calls(a)
      [] name = "beta_const_pt_t_exact" -> beta_const_pt_t_exact_calls(a)
      [] name = "beta_const_t_exact" -> <<Own(1, 0, 1, a), Own(0, 0, 1, a)>>
      [] name = "chem_potential_water_t_exact" -> <<>>
      [] name = "chem_potential_salt_t_exact" -> <<Own(1, 0, 0, a)>>
      [] name = "adiabatic_lapse_rate_t_exact" ->
            <<Own(0, 1, 1, a), Own(0, 2, 0, a)>>
      [] name = "osmotic_coefficient_t_exact" ->
            osmotic_coefficient_t_exact_calls(a)
      [] name = "dynamic_enthalpy_t_exact" -> enthalpy_t_exact_calls(a)


Idle == pc = "idle"

NoLoop ==
    /\ est' = <<>>
    /\ est0' = <<>>
    /\ slope' = <<>>
    /\ Ior' = <<>>
    /\ aux' = <<>>
    /\ k' = 0

Returns(name, a, r) ==
    /\ fn' = name
    /\ args' = a
    /\ out' = r
    /\ pc' = "done"
    /\ orig' = <<>>
    /\ NoLoop
    /\ calls' = gibbs_calls(name, a)
    /\ UNCHANGED orc

Raises(name, a) ==
    /\ fn' = name
    /\ args' = a
    /\ out' = <<>>
    /\ pc' = "raised"
    /\ orig' = <<>>
    /\ NoLoop
    /\ calls' = <<>>
    /\ UNCHANGED orc

(* the call returns the array r, every element of it within the model *)
Deliver(name, a, r) == Returns(name, a, r) /\ InRange(out')

(* the body F on each state a call may be given: an element of the output *)
(* is the body on the same element of the inputs, whatever array it is in  *)
Table3(F(_, _, _)) == {<<e, F(e[1], e[2], e[3])>> : e \in ElemSamples}

Lookup(tab, e) == (CHOOSE pr \in tab : pr[1] = e)[2]

(* every <<SA, t, p, result>> of a call whose elements are drawn from the  *)
(* states of tab                                                            *)
Results3(tab) ==
    {<<Col(f, 1), Col(f, 2), Col(f, 3), [i \in Idx |-> Lookup(tab, f[i])]>> :
        f \in [Idx -> ElemSamples]}

Call3(name, F(_, _, _)) ==
    /\ Idle
    /\ \E r \in Results3(Table3(F)) :
          Deliver(name, <<r[1], r[2], r[3]>>, r[4])

Init ==
    /\ orc \in Oracles
    /\ fn = "none"
    /\ pc = "idle"
    /\ args = <<>>
    /\ out = <<>>
    /\ est = <<>>
    /\ est0 = <<>>
    /\ slope = <<>>
    /\ Ior = <<>>
    /\ aux = <<>>
    /\ orig = <<>>
    /\ k = 0
    /\ calls = <<>>

Call_Helmholtz_energy_t_exact ==
    Call3("Helmholtz_energy_t_exact", Helmholtz_energy_t_exact)

Call_rho_t_exact == Call3("rho_t_exact", rho_t_exact)

Call_enthalpy_t_exact == Call3("enthalpy_t_exact", enthalpy_t_exact)

Call_specvol_t_exact == Call3("specvol_t_exact", specvol_t_exact)

Call_entropy_t_exact == Call3("entropy_t_exact", entropy_t_exact)

Call_cp_t_exact == Call3("cp_t_exact", cp_t_exact)

Call_sound_speed_t_exact == Call3("sound_speed_t_exact", sound_speed_t_exact)

Call_specvol_anom_t_exact ==
    Call3("specvol_anom_t_exact", specvol_anom_t_exact)

Call_chem_potential_relative_t_exact ==
    Call3("chem_potential_relative_t_exact", chem_potential_relative_t_exact)

Call_internal_energy_t_exact ==
    Call3("internal_energy_t_exact", internal_energy_t_exact)

Call_kappa_const_t_exact == Call3("kappa_const_t_exact", kappa_const_t_exact)

Call_alpha_wrt_t_exact == Call3("alpha_wrt_t_exact", alpha_wrt_t_exact)

Call_isochoric_heat_cap_t_exact ==
    Call3("isochoric_heat_cap_t_exact", isochoric_heat_cap_t_exact)

Call_kappa_t_exact == Call3("kappa_t_exact", kappa_t_exact)

Call_alpha_wrt_CT_t_exact ==
    Call3("alpha_wrt_CT_t_exact", alpha_wrt_CT_t_exact)

Call_alpha_wrt_pt_t_exact ==
    Call3("alpha_wrt_pt_t_exact", alpha_wrt_pt_t_exact)

Call_beta_const_CT_t_exact ==
    Call3("beta_const_CT_t_exact", beta_const_CT_t_exact)

Call_beta_const_pt_t_exact ==
    Call3("beta_const_pt_t_exact", beta_const_pt_t_exact)

Call_beta_const_t_exact == Call3("beta_const_t_exact", beta_const_t_exact)

Call_chem_potential_water_t_exact ==
    Call3("chem_potential_water_t_exact", chem_potential_water_t_exact)

Call_chem_potential_salt_t_exact ==
    Call3("chem_potential_salt_t_exact", chem_potential_salt_t_exact)

Call_adiabatic_lapse_rate_t_exact ==
    Call3("adiabatic_lapse_rate_t_exact", adiabatic_lapse_rate_t_exact)

Call_osmotic_coefficient_t_exact ==
    Call3("osmotic_coefficient_t_exact", osmotic_coefficient_t_exact)

(* pot_rho_t_exact(SA, t, p, p_ref=0): args[4] is the p_ref the caller    *)
(* passed, or <<>> when the caller left it out.                            *)
Call_pot_rho_t_exact ==
    /\ Idle
    /\ \E a \in Inputs(ElemSamples), given \in BOOLEAN, pr \in PRefSamples :
          Deliver("pot_rho_t_exact",
                  <<a[1], a[2], a[3], IF given THEN Const(pr) ELSE <<>> >>,
                  [i \in Idx |->
                     pot_rho_t_exact(a[1][i], a[2][i], a[3][i],
                                     IF given THEN pr ELSE p_ref_default)])

(* dynamic_enthalpy_t_exact: line 1756 looks CT_from_t up in the module's  *)
(* namespace when the body runs.                                            *)
Call_dynamic_enthalpy_t_exact ==
    /\ Idle
    /\ \E a \in Inputs(ElemSamples) :
          IF "CT_from_t" \in ModuleNames
          THEN Deliver("dynamic_enthalpy_t_exact", a,
                       Map3(dynamic_enthalpy_t_exact, a))
          ELSE Raises("dynamic_enthalpy_t_exact", a)

----------------------------------------------------------------------------
(* The inversions, one loop pass per step.  est and slope hold the running *)
(* estimate and its derivative, k the passes made, est0 the estimate the   *)
(* loop started from.                                                       *)

RECURSIVE SA_from_rho_loop(_, _, _, _, _)
SA_from_rho_loop(st, v_lab, t, p, n) ==
    IF n = 0 THEN st
    ELSE SA_from_rho_loop(SA_from_rho_round(st[1], st[2], v_lab, t, p),
                          v_lab, t, p, n - 1)

SA_from_rho_t_exact(rho, t, p) ==
    With(SA_from_rho_init(rho, t, p), LAMBDA i :
    SA_from_rho_mask(
        SA_from_rho_loop(<<i[2], i[4]>>, i[1], t, p, SA_from_rho_rounds)[1],
        i[3]))

NoOvf(st) == ~IsOvf(st[1]) /\ ~IsOvf(st[2])

(* the whole call, begun from the initial values i, stays within the model *)
SA_from_rho_InRange(i, t, p) ==
    /\ NoOvf(SA_from_rho_loop(<<i[2], i[4]>>, i[1], t, p, SA_from_rho_rounds))
    /\ IsNum(i[2]) => IsNum(Sub(i[2], Num(120)))

(* lines 1008-1013 on every element: s[i] is SA_from_rho_init of element i *)
(* lines 1009-1010: v_0 and v_120 *)
SA_from_rho_init_calls(a) ==
    << <<0, 0, 1, Const(Zero), a[2], a[3]>>,
       <<0, 0, 1, Const(Num(120)), a[2], a[3]>> >>

(* lines 1017-1020: SA_mean *)
SA_from_rho_mean(SA_old, v_SA, v_lab, t, p) ==
    Mul(Half, Add(Sub(SA_old, Div(Sub(gibbs(0, 0, 1, SA_old, t, p), v_lab),
                                  v_SA)),
                  SA_old))

(* SA_from_rho_round_calls with the slope asked for as a second salinity  *)
(* derivative                                                              *)
SA_from_rho_round_calls_second_order(SA_old, v_SA, v_lab, a) ==
    << <<0, 0, 1, SA_old, a[2], a[3]>>,
       <<2, 0, 1,
         [i \in Idx |-> SA_from_rho_mean(SA_old[i], v_SA[i], v_lab[i],
                                         a[2][i], a[3][i])],
         a[2], a[3]>> >>

(* lines 1017 and 1021, SA_old, v_SA and v_lab being whole arrays *)
SA_from_rho_round_calls(SA_old, v_SA, v_lab, a) ==
    << <<0, 0, 1, SA_old, a[2], a[3]>>,
       <<1, 0, 1,
         [i \in Idx |-> SA_from_rho_mean(SA_old[i], v_SA[i], v_lab[i],
                                         a[2][i], a[3][i])],
         a[2], a[3]>> >>

SA_from_rho_Enter(a, o, s) ==
    /\ fn' = "SA_from_rho_t_exact"
    /\ args' = a
    /\ aux' = Col(s, 1)
    /\ est' = Col(s, 2)
    /\ est0' = Col(s, 2)
    /\ Ior' = Col(s, 3)
    /\ slope' = Col(s, 4)
    /\ k' = 0
    /\ out' = <<>>
    /\ orig' = o
    /\ calls' = SA_from_rho_init_calls(a)
    /\ pc' = "loop"
    /\ UNCHANGED orc
    /\ \A i \in Idx :
          SA_from_rho_InRange(<<aux'[i], est'[i], Ior'[i], slope'[i]>>,
                              a[2][i], a[3][i])

SA_from_rho_Begin(a, o) ==
    SA_from_rho_Enter(a, o, Map3(SA_from_rho_init, a))

SA_from_rho_Start ==
    /\ Idle
    /\ \E a \in Inputs(RhoSamples) : SA_from_rho_Begin(a, <<>>)

(* SA_from_rho_t_exact(rho_t_exact(SA, t, p), t, p) *)
SA_from_rho_RoundTrip ==
    /\ pc = "done"
    /\ fn = "rho_t_exact"
    /\ SA_from_rho_Begin(<<out, args[2], args[3]>>, args[1])

SA_from_rho_Step(s, c) ==
    /\ est' = Col(s, 1)
    /\ slope' = Col(s, 2)
    /\ k' = k + 1
    /\ calls' = calls \o c
    /\ UNCHANGED <<orc, fn, pc, args, out, est0, Ior, orig, aux>>

SA_from_rho_Round ==
    /\ pc = "loop"
    /\ fn = "SA_from_rho_t_exact"
    /\ k < SA_from_rho_rounds
    /\ SA_from_rho_Step([i \in Idx |->
           SA_from_rho_round(est[i], slope[i], aux[i], args[2][i], args[3][i])],
           SA_from_rho_round_calls(est, slope, aux, args))

(* SA_from_rho_Return with the whole array masked when any element is    *)
(* flagged                                                                *)
SA_from_rho_Return_any ==
    /\ pc = "loop"
    /\ fn = "SA_from_rho_t_exact"
    /\ k >= SA_from_rho_rounds
    /\ out' = [i \in Idx |->
                 SA_from_rho_mask(est[i], \E j \in Idx : Ior[j])]
    /\ pc' = "done"
    /\ UNCHANGED <<orc, fn, args, est, est0, slope, k, Ior, orig, aux,
                   calls>>

SA_from_rho_Return ==
    /\ pc = "loop"
    /\ fn = "SA_from_rho_t_exact"
    /\ k >= SA_from_rho_rounds
    /\ out' = [i \in Idx |-> SA_from_rho_mask(est[i], Ior[i])]
    /\ pc' = "done"
    /\ UNCHANGED <<orc, fn, args, est, est0, slope, k, Ior, orig, aux,
                   calls>>

RECURSIVE t_maxdensity_loop(_, _, _, _)
t_maxdensity_loop(st, SA, p, n) ==
    IF n = 0 THEN st
    ELSE t_maxdensity_loop(t_maxdensity_round(st[1], st[2], SA, p), SA, p, n - 1)

t_maxdensity_exact(SA, p) ==
    t_maxdensity_loop(t_maxdensity_init(SA, p), SA, p, t_maxdensity_rounds)[1]

t_maxdensity_InRange(SA, p) ==
    NoOvf(t_maxdensity_loop(t_maxdensity_init(SA, p), SA, p,
                            t_maxdensity_rounds))

(* lines 1812-1815: t_mean *)
t_maxdensity_mean(t_old, gibbs_PTT, SA, p) ==
    Mul(Half, Add(Sub(t_old, Div(gibbs(0, 1, 1, SA, t_old, p), gibbs_PTT)),
                  t_old))

(* t_maxdensity_round_calls with the slope asked of the oracle directly,  *)
(* as a second temperature derivative at t_mean                            *)
t_maxdensity_round_calls_analytic(t_old, gibbs_PTT, a) ==
    << <<0, 1, 1, a[1], t_old, a[2]>>,
       <<0, 2, 1, a[1],
         [i \in Idx |-> t_maxdensity_mean(t_old[i], gibbs_PTT[i],
                                          a[1][i], a[2][i])],
         a[2]>> >>

(* lines 1812, 1816 and 1817, t_old and gibbs_PTT being whole arrays; a is *)
(* <<SA, p>>                                                                *)
t_maxdensity_round_calls(t_old, gibbs_PTT, a) ==
    << <<0, 1, 1, a[1], t_old, a[2]>>,
       <<0, 1, 1, a[1],
         [i \in Idx |-> Add(t_maxdensity_mean(t_old[i], gibbs_PTT[i],
                                              a[1][i], a[2][i]), dt)],
         a[2]>>,
       <<0, 1, 1, a[1],
         [i \in Idx |-> Sub(t_maxdensity_mean(t_old[i], gibbs_PTT[i],
                                              a[1][i], a[2][i]), dt)],
         a[2]>> >>

(* lines 1807-1808 on every element: s[i] is t_maxdensity_init of it *)
t_maxdensity_Enter(a, s) ==
    /\ \A i \in Idx : t_maxdensity_InRange(a[1][i], a[2][i])
    /\ fn' = "t_maxdensity_exact"
    /\ args' = a
    /\ est' = Col(s, 1)
    /\ est0' = Col(s, 1)
    /\ slope' = Col(s, 2)
    /\ aux' = <<>>
    /\ Ior' = <<>>
    /\ k' = 0
    /\ out' = <<>>
    /\ orig' = <<>>
    /\ calls' = <<>>
    /\ pc' = "loop"
    /\ UNCHANGED orc

t_maxdensity_Start ==
    /\ Idle
    /\ \E b \in Inputs(ElemSamples) :
          t_maxdensity_Enter(<<b[1], b[3]>>,
              [i \in Idx |-> t_maxdensity_init(b[1][i], b[3][i])])

t_maxdensity_Step(s, c) ==
    /\ est' = Col(s, 1)
    /\ slope' = Col(s, 2)
    /\ k' = k + 1
    /\ calls' = calls \o c
    /\ UNCHANGED <<orc, fn, pc, args, out, est0, Ior, orig, aux>>

t_maxdensity_Round ==
    /\ pc = "loop"
    /\ fn = "t_maxdensity_exact"
    /\ k < t_maxdensity_rounds
    /\ t_maxdensity_Step([i \in Idx |->
           t_maxdensity_round(est[i], slope[i], args[1][i], args[2][i])],
           t_maxdensity_round_calls(est, slope, args))

t_maxdensity_Return ==
    /\ pc = "loop"
    /\ fn = "t_maxdensity_exact"
    /\ k >= t_maxdensity_rounds
    /\ out' = est
    /\ pc' = "done"
    /\ UNCHANGED <<orc, fn, args, est, est0, slope, k, Ior, orig, aux,
                   calls>>

RECURSIVE osmotic_pressure_loop(_, _, _, _, _)
osmotic_pressure_loop(st, gibbs_pure_water, SA, t, n) ==
    IF n = 0 THEN st
    ELSE osmotic_pressure_loop(
             osmotic_pressure_round(st[1], st[2], gibbs_pure_water, SA, t),
             gibbs_pure_water, SA, t, n - 1)

osmotic_pressure_t_exact(SA, t, pw) ==
    With(osmotic_pressure_init(SA, t, pw), LAMBDA i :
    Sub(osmotic_pressure_loop(<<i[2], i[3]>>, i[1], SA, t,
                              osmotic_pressure_rounds)[1],
        pw))

OsmNoOvf(st, i, pw) ==
    NoOvf(st) /\ ~IsOvf(i[1]) /\ ~IsOvf(Sub(st[1], pw))

(* the whole call, begun from the initial values i, stays within the model *)
osmotic_pressure_InRange(i, SA, t, pw) ==
    OsmNoOvf(osmotic_pressure_loop(<<i[2], i[3]>>, i[1], SA, t,
                                   osmotic_pressure_rounds), i, pw)

(* lines 1868, 1874 and 1875; a is <<SA, t, pw>> *)
osmotic_pressure_init_calls(a) ==
    << <<0, 0, 0, Const(Zero), a[2], a[3]>>,
       <<0, 0, 1, a[1], a[2],
         [i \in Idx |-> Add(a[3][i], Rat(2354684, 10000))]>>,
       <<1, 0, 1, a[1], a[2],
         [i \in Idx |-> Add(a[3][i], Rat(2354684, 10000))]>> >>

(* lines 1879-1882: p_mean *)
osmotic_pressure_mean(p_old, df_dp, gibbs_pure_water, SA, t) ==
    Mul(Half,
        Add(Sub(p_old,
                Div(Sub(gibbs_pure_water,
                        chem_potential_water_t_exact(SA, t, p_old)),
                    df_dp)),
            p_old))

(* lines 1883-1884, p_old, df_dp and gibbs_pure_water being whole arrays; *)
(* line 1880 calls chem_potential_water_t_exact, which makes no call      *)
osmotic_pressure_round_calls(p_old, df_dp, gibbs_pure_water, a) ==
    << <<0, 0, 1, a[1], a[2],
         [i \in Idx |-> osmotic_pressure_mean(p_old[i], df_dp[i],
                                              gibbs_pure_water[i],
                                              a[1][i], a[2][i])]>>,
       <<1, 0, 1, a[1], a[2],
         [i \in Idx |-> osmotic_pressure_mean(p_old[i], df_dp[i],
                                              gibbs_pure_water[i],
                                              a[1][i], a[2][i])]>> >>

(* lines 1868-1875 on every element: s[i] is osmotic_pressure_init of it *)
osmotic_pressure_Enter(a, s) ==
    /\ fn' = "osmotic_pressure_t_exact"
    /\ args' = a
    /\ aux' = Col(s, 1)
    /\ est' = Col(s, 2)
    /\ est0' = Col(s, 2)
    /\ slope' = Col(s, 3)
    /\ Ior' = <<>>
    /\ k' = 0
    /\ out' = <<>>
    /\ orig' = <<>>
    /\ calls' = osmotic_pressure_init_calls(a)
    /\ pc' = "loop"
    /\ UNCHANGED orc
    /\ \A i \in Idx :
          osmotic_pressure_InRange(<<aux'[i], est'[i], slope'[i]>>,
                                   a[1][i], a[2][i], a[3][i])

osmotic_pressure_Start ==
    /\ Idle
    /\ \E a \in Inputs(OsmSamples) :
          osmotic_pressure_Enter(a, Map3(osmotic_pressure_init, a))

osmotic_pressure_Step(s, c) ==
    /\ est' = Col(s, 1)
    /\ slope' = Col(s, 2)
    /\ k' = k + 1
    /\ calls' = calls \o c
    /\ UNCHANGED <<orc, fn, pc, args, out, est0, Ior, orig, aux>>

osmotic_pressure_Round ==
    /\ pc = "loop"
    /\ fn = "osmotic_pressure_t_exact"
    /\ k < osmotic_pressure_rounds
    /\ osmotic_pressure_Step([i \in Idx |->
           osmotic_pressure_round(est[i], slope[i], aux[i],
                                  args[1][i], args[2][i])],
           osmotic_pressure_round_calls(est, slope, aux, args))

osmotic_pressure_Return ==
    /\ pc = "loop"
    /\ fn = "osmotic_pressure_t_exact"
    /\ k >= osmotic_pressure_rounds
    /\ out' = [i \in Idx |-> Sub(est[i], args[3][i])]
    /\ pc' = "done"
    /\ UNCHANGED <<orc, fn, args, est, est0, slope, k, Ior, orig, aux,
                   calls>>

(* the call has returned or raised: the caller goes on to its next call *)
Reset ==
    /\ pc \in {"done", "raised"}
    /\ fn' = "none"
    /\ args' = <<>>
    /\ out' = <<>>
    /\ pc' = "idle"
    /\ orig' = <<>>
    /\ NoLoop
    /\ calls' = <<>>
    /\ UNCHANGED orc

Next ==
    \/ Call_Helmholtz_energy_t_exact
    \/ Call_rho_t_exact
    \/ Call_enthalpy_t_exact
    \/ Call_specvol_t_exact
    \/ Call_entropy_t_exact
    \/ Call_cp_t_exact
    \/ Call_sound_speed_t_exact
    \/ Call_specvol_anom_t_exact
    \/ Call_chem_potential_relative_t_exact
    \/ Call_internal_energy_t_exact
    \/ Call_kappa_const_t_exact
    \/ Call_alpha_wrt_t_exact
    \/ Call_isochoric_heat_cap_t_exact
    \/ Call_kappa_t_exact
    \/ Call_pot_rho_t_exact
    \/ Call_alpha_wrt_CT_t_exact
    \/ Call_alpha_wrt_pt_t_exact
    \/ Call_beta_const_CT_t_exact
    \/ Call_beta_const_pt_t_exact
    \/ Call_beta_const_t_exact
    \/ Call_chem_potential_water_t_exact
    \/ Call_chem_potential_salt_t_exact
    \/ Call_adiabatic_lapse_rate_t_exact
    \/ Call_osmotic_coefficient_t_exact
    \/ Call_dynamic_enthalpy_t_exact
    \/ SA_from_rho_Start
    \/ SA_from_rho_RoundTrip
    \/ SA_from_rho_Round
    \/ SA_from_rho_Return
    \/ t_maxdensity_Start
    \/ t_maxdensity_Round
    \/ t_maxdensity_Return
    \/ osmotic_pressure_Start
    \/ osmotic_pressure_Round
    \/ osmotic_pressure_Return
    \/ Reset

Spec == Init /\ [][Next]_vars

----------------------------------------------------------------------------
(* Properties *)

Elem(i) == <<args[1][i], args[2][i], args[3][i]>>

Returned(name) == pc = "done" /\ fn = name

Outside(x, lo, hi) == Lt(x, Num(lo)) \/ Gt(x, Num(hi))

(* element i of some argument of the call is missing *)
Missing(i) == \E j \in DOMAIN args : args[j] # <<>> /\ args[j][i] = NaN

(* the reference pressure of element i: 0 when p_ref was not given *)
PRefOf(i) == IF args[4] = <<>> THEN Zero ELSE args[4][i]

C2_SpecvolIsInverseOfRho ==
    Returned("specvol_t_exact")
    => \A i \in Idx :
          out[i] = Div(One, rho_t_exact(Elem(i)[1], Elem(i)[2], Elem(i)[3]))

(* C2: rho_t_exact(SA, t, p) = 1 / specvol_t_exact(SA, t, p) for every     *)
(* state, and specvol_t_exact(SA, t, p) = 1 / rho_t_exact(SA, t, p) for     *)
(* every state whose specific volume is not zero; where it is zero the     *)
(* density is missing.                                                      *)
C2_RhoIsInverseOfSpecvol ==
    /\ Returned("rho_t_exact")
       => \A i \in Idx :
             out[i] = Div(One, specvol_t_exact(Elem(i)[1], Elem(i)[2], Elem(i)[3]))
    /\ Returned("specvol_t_exact")
       => \A i \in Idx :
             IF out[i] = Zero
             THEN rho_t_exact(Elem(i)[1], Elem(i)[2], Elem(i)[3]) = NaN
             ELSE out[i] = Div(One, rho_t_exact(Elem(i)[1], Elem(i)[2], Elem(i)[3]))

C2_Witness ==
    /\ Returned("specvol_t_exact")
    /\ out[1] = Zero
    /\ IsNum(out[2]) /\ out[2] # Zero

(* C3: chem_potential_salt_t_exact(SA, t, p) is the sum of                 *)
(* chem_potential_relative_t_exact(SA, t, p) and                            *)
(* chem_potential_water_t_exact(SA, t, p).                                  *)
C3_SaltIsRelativePlusWater ==
    Returned("chem_potential_salt_t_exact")
    => \A i \in Idx :
          out[i] = Add(chem_potential_relative_t_exact(Elem(i)[1], Elem(i)[2], Elem(i)[3]),
                       chem_potential_water_t_exact(Elem(i)[1], Elem(i)[2], Elem(i)[3]))

C3_Witness ==
    /\ Returned("chem_potential_salt_t_exact")
    /\ IsNum(out[1])
    /\ chem_potential_relative_t_exact(Elem(1)[1], Elem(1)[2], Elem(1)[3]) # Zero
    /\ chem_potential_water_t_exact(Elem(1)[1], Elem(1)[2], Elem(1)[3]) # Zero

(* C4: of every call that returns, element i of the output is missing      *)
(* when element i of any input is missing.                                  *)
C4_MaskPropagates ==
    pc = "done" => \A i \in Idx : Missing(i) => out[i] = NaN

C4_Witness ==
    /\ Returned("chem_potential_water_t_exact")
    /\ args[1][1] = NaN /\ out[1] = NaN
    /\ ~Missing(2) /\ IsNum(out[2])

(* C5 as stated: no call of a property function raises.                    *)
C5_NoCallRaises == pc # "raised"

(* C6: in SA_from_rho_t_exact the flag of an element is raised exactly     *)
(* when its initial estimate is outside [0, 120]; nothing is masked while  *)
(* the loop runs; the call returns after both passes, every element then   *)
(* holding the second pass's value, and the output is that value with the  *)
(* flagged elements masked.                                                 *)
C6_FlagFromInitialEstimate ==
    (fn = "SA_from_rho_t_exact" /\ pc \in {"loop", "done"})
    => /\ \A i \in Idx : Ior[i] = Outside(est0[i], 0, 120)
       /\ pc = "loop" => out = <<>>
       /\ pc = "done"
          => /\ k = 2
             /\ \A i \in Idx :
                   /\ est[i] = SA_from_rho_round(
                                  SA_from_rho_round(
                                      est0[i],
                                      SA_from_rho_init(Elem(i)[1], Elem(i)[2], Elem(i)[3])[4],
                                      aux[i], args[2][i], args[3][i])[1],
                                  SA_from_rho_round(
                                      est0[i],
                                      SA_from_rho_init(Elem(i)[1], Elem(i)[2], Elem(i)[3])[4],
                                      aux[i], args[2][i], args[3][i])[2],
                                  aux[i], args[2][i], args[3][i])[1]
                   /\ out[i] = IF Ior[i] THEN NaN ELSE est[i]

C6_Witness ==
    /\ Returned("SA_from_rho_t_exact")
    /\ \E i \in Idx :
          /\ Ior[i] /\ Lt(est0[i], Zero)
          /\ est[i] # est0[i] /\ IsNum(est[i]) /\ ~Outside(est[i], 0, 120)
          /\ out[i] = NaN

(* C7 as stated: an element whose final salinity is outside [0, 120] is    *)
(* returned missing.                                                        *)
C7_FinalOutsideIsMasked ==
    Returned("SA_from_rho_t_exact")
    => \A i \in Idx : Outside(est[i], 0, 120) => out[i] = NaN

(* C7: an element of the output of SA_from_rho_t_exact is missing exactly  *)
(* when its initial estimate is outside [0, 120] or its final salinity is  *)
(* itself missing; every other element is the final salinity, a number,    *)
(* in or out of [0, 120].                                                   *)
C7_InitialOutsideIsMasked ==
    Returned("SA_from_rho_t_exact")
    => \A i \in Idx :
          /\ out[i] = NaN <=> (Outside(est0[i], 0, 120) \/ est[i] = NaN)
          /\ out[i] # NaN => out[i] = est[i]

C7_Witness ==
    /\ Returned("SA_from_rho_t_exact")
    /\ \E i \in Idx :
          /\ IsNum(est0[i]) /\ ~Outside(est0[i], 0, 120)
          /\ Outside(est[i], 0, 120)
          /\ out[i] = est[i]

(* C8: SA_from_rho_t_exact returns after exactly 2 passes of its loop,     *)
(* t_maxdensity_exact after exactly 3 and osmotic_pressure_t_exact after   *)
(* exactly 2, whatever the inputs and the residuals.                        *)
C8_FixedRounds ==
    /\ Returned("SA_from_rho_t_exact") => k = 2
    /\ Returned("t_maxdensity_exact") => k = 3
    /\ Returned("osmotic_pressure_t_exact") => k = 2
    /\ (pc = "loop" /\ fn = "SA_from_rho_t_exact") => k \in 0 .. 2
    /\ (pc = "loop" /\ fn = "t_maxdensity_exact") => k \in 0 .. 3
    /\ (pc = "loop" /\ fn = "osmotic_pressure_t_exact") => k \in 0 .. 2

(* a call whose estimate was exact from the start still made both passes *)
C8_Witness ==
    /\ Returned("SA_from_rho_t_exact")
    /\ k = 2
    /\ \A i \in Idx : IsNum(est0[i]) /\ est[i] = est0[i]

(* C9: pot_rho_t_exact(SA, t, p, p_ref) is rho_t_exact(SA, pt, p_ref) with *)
(* pt = pt_from_t(SA, t, p, p_ref), and p_ref is 0 when it is not given.   *)
C9_PotRhoIsRhoAtReference ==
    Returned("pot_rho_t_exact")
    => \A i \in Idx :
          out[i] = rho_t_exact(Elem(i)[1],
                               pt_from_t(Elem(i)[1], Elem(i)[2], Elem(i)[3], PRefOf(i)),
                               PRefOf(i))

C9_Witness ==
    /\ Returned("pot_rho_t_exact")
    /\ args[4] = <<>>
    /\ args[3][1] = Num(1000)
    /\ IsNum(out[1])
    /\ out[1] # rho_t_exact(Elem(1)[1], Elem(1)[2], Elem(1)[3])

(* C10: for every element with p = p_ref, pot_rho_t_exact(SA, t, p, p_ref) *)
(* is rho_t_exact(SA, t, p).                                                *)
C10_PotRhoAtOwnPressure ==
    Returned("pot_rho_t_exact")
    => \A i \in Idx :
          args[3][i] = PRefOf(i)
          => out[i] = rho_t_exact(Elem(i)[1], Elem(i)[2], Elem(i)[3])

C10_Witness ==
    /\ Returned("pot_rho_t_exact")
    /\ args[4] # <<>>
    /\ args[4][1] = Num(1000) /\ args[3][1] = Num(1000)
    /\ IsNum(out[1])

(* the oracle value gibbs(ns, nt, np, SA, t, p) at element i of the call *)
G(ns, nt, np, i) == gibbs(ns, nt, np, args[1][i], args[2][i], args[3][i])

C12_SoundSpeedFromRhoKappa ==
    Returned("sound_speed_t_exact")
    => \A i \in Idx :
          LET rho == rho_t_exact(Elem(i)[1], Elem(i)[2], Elem(i)[3])
              kappa == kappa_t_exact(Elem(i)[1], Elem(i)[2], Elem(i)[3])
              root == Sqrt(Div(rho, kappa))
          IN  /\ Mul(out[i], rho) = root
              /\ (IsNum(root) /\ Mul(root, root) = Div(rho, kappa))
                 => Mul(Mul(out[i], rho), Mul(out[i], kappa)) = One

C12_Witness ==
    /\ Returned("sound_speed_t_exact")
    /\ IsNum(out[1]) /\ out[1] # Zero
    /\ Mul(Mul(out[1], rho_t_exact(Elem(1)[1], Elem(1)[2], Elem(1)[3])),
           Mul(out[1], kappa_t_exact(Elem(1)[1], Elem(1)[2], Elem(1)[3]))) = One
    /\ IsNum(out[2]) /\ out[2] # Zero

(* C13: enthalpy_t_exact(SA, t, p) = g + (T0 + t) entropy_t_exact(SA, t, p) *)
(* with g = gibbs(0, 0, 0, SA, t, p).                                       *)
C13_EnthalpyFromEntropy ==
    /\ Returned("enthalpy_t_exact")
       => \A i \in Idx :
             out[i] = Add(G(0, 0, 0, i),
                          Mul(Add(Kelvin, args[2][i]),
                              entropy_t_exact(Elem(i)[1], Elem(i)[2], Elem(i)[3])))
    /\ Returned("entropy_t_exact")
       => \A i \in Idx : out[i] = Neg(G(0, 1, 0, i))

C13_Witness ==
    /\ Returned("enthalpy_t_exact")
    /\ IsNum(out[1])
    /\ entropy_t_exact(Elem(1)[1], Elem(1)[2], Elem(1)[3]) \notin {Zero, NaN}
    /\ out[1] # G(0, 0, 0, 1)

C16_ZeroDivisorGivesMissing ==
    /\ fn \in {"kappa_const_t_exact", "osmotic_coefficient_t_exact"}
       => pc = "done"
    /\ Returned("kappa_const_t_exact")
       => \A i \in Idx :
             IF G(0, 0, 1, i) = Zero THEN out[i] = NaN
             ELSE ~Missing(i) => IsNum(out[i])
    /\ Returned("osmotic_coefficient_t_exact")
       => \A i \in Idx :
             IF Mul(Mul(molality_from_SA(args[1][i]), R),
                    Add(Kelvin, args[2][i])) = Zero
             THEN out[i] = NaN
             ELSE (~Missing(i) /\ ~Lt(args[1][i], Zero)) => IsNum(out[i])

C16_Witness ==
    /\ Returned("osmotic_coefficient_t_exact")
    /\ args[1][1] = Zero /\ IsNum(args[2][1]) /\ IsNum(args[3][1])
    /\ out[1] = NaN
    /\ IsNum(out[2])

(* C17: at SA = 0 chem_potential_relative_t_exact returns the oracle value *)
(* gibbs(1, 0, 0, 0, t, p) as it is, a number that need not be zero.       *)
C17_RelativeAtPureWater ==
    Returned("chem_potential_relative_t_exact")
    => \A i \in Idx :
          args[1][i] = Zero
          => out[i] = gibbs(1, 0, 0, Zero, args[2][i], args[3][i])

C17_Witness ==
    /\ Returned("chem_potential_relative_t_exact")
    /\ args[1][1] = Zero
    /\ IsNum(out[1]) /\ out[1] # Zero

(* The shape the three inversions share, read off the state of a call in   *)
(* its loop: the residual at a value x of the unknown of element i, the    *)
(* slope at x, and the slope the loop is entered with.                     *)
Residual(i, x) ==
    CASE fn = "SA_from_rho_t_exact" ->
            Sub(gibbs(0, 0, 1, x, args[2][i], args[3][i]), aux[i])
      [] fn = "t_maxdensity_exact" ->
            gibbs(0, 1, 1, args[1][i], x, args[2][i])
      [] fn = "osmotic_pressure_t_exact" ->
            Sub(aux[i], chem_potential_water_t_exact(args[1][i], args[2][i], x))

SlopeAt(i, x) ==
    CASE fn = "SA_from_rho_t_exact" ->
            gibbs(1, 0, 1, x, args[2][i], args[3][i])
      [] fn = "t_maxdensity_exact" ->
            Div(Sub(gibbs(0, 1, 1, args[1][i], Add(x, Rat(1, 1000)), args[2][i]),
                    gibbs(0, 1, 1, args[1][i], Sub(x, Rat(1, 1000)), args[2][i])),
                Rat(2, 1000))
      [] fn = "osmotic_pressure_t_exact" ->
            Mul(Num(-10000),
                Sub(gibbs(0, 0, 1, args[1][i], args[2][i], x),
                    Mul(args[1][i], gibbs(1, 0, 1, args[1][i], args[2][i], x))))

InitialSlope(i) ==
    CASE fn = "SA_from_rho_t_exact" ->
            Div(Sub(gibbs(0, 0, 1, Num(120), args[2][i], args[3][i]),
                    gibbs(0, 0, 1, Zero, args[2][i], args[3][i])),
                Num(120))
      [] fn = "t_maxdensity_exact" -> Rat(11, 1000000000)
      [] fn = "osmotic_pressure_t_exact" ->
            SlopeAt(i, Add(args[3][i], Rat(2354684, 10000)))

NewtonStep(old, r, s) == Sub(old, Div(r, s))

(* the half-way estimate of element i: a step from old with the slope held *)
HalfStep(i, old, s) == NewtonStep(old, Residual(i, old), s)

(* the slope at the midpoint of old and the half-way estimate *)
SlopeMid(i, old, s) == SlopeAt(i, Mul(Half, Add(old, HalfStep(i, old, s))))

(* a pass of the loop of the call in progress *)
IsRound == pc = "loop" /\ k' = k + 1

Orders(j) == <<calls[j][1], calls[j][2], calls[j][3]>>

(* the j-th oracle call is made at the arrays the caller passed *)
AtOwnState(j) ==
    calls[j][4] = args[1] /\ calls[j][5] = args[2] /\ calls[j][6] = args[3]

(* the j-th oracle call is made at (SA, pt0_from_t(SA, t, p), 0) *)
AtSurfaceState(j) ==
    /\ calls[j][4] = args[1]
    /\ calls[j][5] = [i \in Idx |->
                        pt0_from_t(args[1][i], args[2][i], args[3][i])]
    /\ calls[j][6] = [i \in Idx |-> Zero]

Inversions ==
    {"SA_from_rho_t_exact", "t_maxdensity_exact", "osmotic_pressure_t_exact"}

(* C21: every oracle call of every function, in every call and every loop *)
(* round, passes orders n_SA in {0, 1}, n_t in {0, 1, 2} and n_p in        *)
(* {0, 1, 2}.                                                               *)
C21_DerivativeOrdersInRange ==
    \A j \in DOMAIN calls :
       /\ calls[j][1] \in {0, 1}
       /\ calls[j][2] \in {0, 1, 2}
       /\ calls[j][3] \in {0, 1, 2}

(* after both rounds of SA_from_rho_t_exact: six calls, a salinity         *)
(* derivative among them                                                    *)
C21_Witness ==
    /\ fn = "SA_from_rho_t_exact" /\ pc = "loop" /\ k = 2
    /\ Len(calls) = 6
    /\ Orders(6) = <<1, 0, 1>>
    /\ \A i \in Idx : IsNum(est[i])

(* C22 as stated: every direct property function other than               *)
(* pot_rho_t_exact, specvol_anom_t_exact and dynamic_enthalpy_t_exact      *)
(* calls the oracle only at the caller's own (SA, t, p).                   *)
C22_OwnStateExceptThree ==
    (pc = "done"
     /\ fn \notin Inversions
     /\ fn \notin {"pot_rho_t_exact", "specvol_anom_t_exact",
                   "dynamic_enthalpy_t_exact"})
    => \A j \in DOMAIN calls : AtOwnState(j)

(* C22: every direct property function other than pot_rho_t_exact,        *)
(* specvol_anom_t_exact, dynamic_enthalpy_t_exact, alpha_wrt_pt_t_exact,   *)
(* beta_const_CT_t_exact, beta_const_pt_t_exact and                         *)
(* osmotic_coefficient_t_exact calls the oracle only at the caller's own   *)
(* (SA, t, p).  alpha_wrt_pt_t_exact, beta_const_CT_t_exact and            *)
(* beta_const_pt_t_exact each make one call at (SA, pt0, 0), with          *)
(* pt0 = pt0_from_t(SA, t, p), and their other calls at (SA, t, p);        *)
(* osmotic_coefficient_t_exact makes its one call at (0, t, p).            *)
C22_OwnStateExceptSeven ==
    /\ (pc = "done"
        /\ fn \notin Inversions
        /\ fn \notin {"pot_rho_t_exact", "specvol_anom_t_exact",
                      "dynamic_enthalpy_t_exact", "alpha_wrt_pt_t_exact",
                      "beta_const_CT_t_exact", "beta_const_pt_t_exact",
                      "osmotic_coefficient_t_exact"})
       => \A j \in DOMAIN calls : AtOwnState(j)
    /\ (pc = "done"
        /\ fn \in {"alpha_wrt_pt_t_exact", "beta_const_CT_t_exact",
                   "beta_const_pt_t_exact"})
       => \E j \in DOMAIN calls :
             /\ AtSurfaceState(j)
             /\ \A m \in DOMAIN calls \ {j} : AtOwnState(m)
    /\ Returned("osmotic_coefficient_t_exact")
       => /\ Len(calls) = 1
          /\ calls[1][4] = [i \in Idx |-> Zero]
          /\ calls[1][5] = args[2]
          /\ calls[1][6] = args[3]

(* a call of beta_const_CT_t_exact whose g_SA is taken at another          *)
(* temperature and pressure than the caller's                               *)
C22_Witness ==
    /\ Returned("beta_const_CT_t_exact")
    /\ \E j \in DOMAIN calls :
          /\ Orders(j) = <<1, 0, 0>>
          /\ AtSurfaceState(j)
          /\ ~AtOwnState(j)
    /\ \A i \in Idx : IsNum(out[i])

(* C23: t_maxdensity_exact never asks the oracle for a second temperature *)
(* derivative.  Every oracle call it makes has orders (0, 1, 1), three of  *)
(* them a round; the initial estimate 3.978 - 0.22072 SA is there before   *)
(* any call; and the slope a round leaves is                                *)
(* (gibbs(0,1,1,SA,t_mean+dt,p) - gibbs(0,1,1,SA,t_mean-dt,p)) / (2 dt)    *)
(* with dt = 0.001 and t_mean the midpoint of the old temperature and the  *)
(* half-step temperature, the two calls being made at t_mean + dt and      *)
(* t_mean - dt.                                                             *)
C23_FiniteDifferenceSlope ==
    /\ []((fn = "t_maxdensity_exact" /\ pc \in {"loop", "done"})
          => /\ \A j \in DOMAIN calls : Orders(j) = <<0, 1, 1>>
             /\ Len(calls) = 3 * k
             /\ \A i \in Idx :
                   est0[i] = Sub(Rat(3978, 1000),
                                 Mul(Rat(22072, 100000), args[1][i])))
    /\ [][(IsRound /\ fn = "t_maxdensity_exact")
          => \A i \in Idx :
                /\ calls'[3 * k + 1][5][i] = est[i]
                /\ calls'[3 * k + 2][5][i]
                      = Add(Mul(Half, Add(est[i], HalfStep(i, est[i], slope[i]))),
                            Rat(1, 1000))
                /\ calls'[3 * k + 3][5][i]
                      = Sub(Mul(Half, Add(est[i], HalfStep(i, est[i], slope[i]))),
                            Rat(1, 1000))
                /\ slope'[i]
                      = Div(Sub(gibbs(0, 1, 1, args[1][i],
                                      calls'[3 * k + 2][5][i], args[2][i]),
                                gibbs(0, 1, 1, args[1][i],
                                      calls'[3 * k + 3][5][i], args[2][i])),
                            Rat(2, 1000))]_vars

(* after the third round: nine calls, and a slope that is a number and no *)
(* longer the initial guess                                                 *)
C23_Witness ==
    /\ fn = "t_maxdensity_exact" /\ pc = "loop" /\ k = 3
    /\ Len(calls) = 9
    /\ \A i \in Idx :
          /\ IsNum(est[i]) /\ est[i] # est0[i]
          /\ IsNum(slope[i]) /\ slope[i] # InitialSlope(i)

V0(i) == gibbs(0, 0, 1, Zero, args[2][i], args[3][i])

V120(i) == gibbs(0, 0, 1, Num(120), args[2][i], args[3][i])

(* C25: the initial salinity estimate of SA_from_rho_t_exact is            *)
(* 120 (1/rho - v_0) / (v_120 - v_0) with v_0 = gibbs(0,0,1,0,t,p) and     *)
(* v_120 = gibbs(0,0,1,120,t,p); where v_120 differs from v_0 it is 0 when *)
(* 1/rho = v_0 and 120 when 1/rho = v_120.  It is there before any loop    *)
(* round, after the two oracle calls for v_0 and v_120 alone, and the      *)
(* slope the first round is entered with is (v_120 - v_0) / 120.           *)
C25_InitialEstimateInterpolates ==
    (fn = "SA_from_rho_t_exact" /\ pc \in {"loop", "done"})
    => /\ \A i \in Idx :
             /\ est0[i] = Div(Mul(Num(120), Sub(Div(One, args[1][i]), V0(i))),
                              Sub(V120(i), V0(i)))
             /\ (IsNum(V0(i)) /\ IsNum(V120(i)) /\ V120(i) # V0(i))
                => /\ Div(One, args[1][i]) = V0(i) => est0[i] = Zero
                   /\ Div(One, args[1][i]) = V120(i) => est0[i] = Num(120)
             /\ k = 0 => /\ est[i] = est0[i]
                         /\ slope[i] = Div(Sub(V120(i), V0(i)), Num(120))
       /\ k = 0 => /\ Len(calls) = 2
                   /\ Orders(1) = <<0, 0, 1>> /\ calls[1][4] = [i \in Idx |-> Zero]
                   /\ Orders(2) = <<0, 0, 1>>
                   /\ calls[2][4] = [i \in Idx |-> Num(120)]

(* a call about to enter its loop with one element at each end of the     *)
(* interpolation                                                            *)
C25_Witness ==
    /\ fn = "SA_from_rho_t_exact" /\ pc = "loop" /\ k = 0
    /\ orig = <<>>
    /\ Div(One, args[1][1]) = V0(1) /\ est0[1] = Zero
    /\ Div(One, args[1][2]) = V120(2) /\ est0[2] = Num(120)
    /\ IsNum(slope[1]) /\ slope[1] # Zero

(* C27: chem_potential_water_t_exact makes no oracle call.  An element    *)
(* none of whose inputs is missing is                                       *)
(* g03_g + g08_g - 0.5 sfac SA g_SA_part, the three polynomials taken at   *)
(* x2 = sfac SA, x = sqrt(x2), y = 0.025 t and z = 0.0001 p; an element    *)
(* with a missing input is missing in the output, and no other element is. *)
C27_WaterPotentialFromPolynomials ==
    Returned("chem_potential_water_t_exact")
    => /\ calls = <<>>
       /\ \A i \in Idx :
             IF Missing(i) THEN out[i] = NaN
             ELSE /\ out[i] # NaN
                  /\ out[i]
                       = Sub(Add(g03_g(Mul(args[2][i], Rat(25, 1000)),
                                       Mul(args[3][i], Rat(1, 10000))),
                                 g08_g(Mul(sfac, args[1][i]),
                                       Sqrt(Mul(sfac, args[1][i])),
                                       Mul(args[2][i], Rat(25, 1000)),
                                       Mul(args[3][i], Rat(1, 10000)))),
                             Mul(Mul(Mul(Half, sfac), args[1][i]),
                                 g_SA_part(Sqrt(Mul(sfac, args[1][i])),
                                           Mul(args[2][i], Rat(25, 1000)),
                                           Mul(args[3][i], Rat(1, 10000)))))

(* a masked temperature next to a sample at SA = 10 whose salinity term   *)
(* is not zero                                                              *)
C27_Witness ==
    /\ Returned("chem_potential_water_t_exact")
    /\ calls = <<>>
    /\ args[2][1] = NaN /\ IsNum(args[1][1]) /\ out[1] = NaN
    /\ args[1][2] = Num(10) /\ IsNum(out[2])
    /\ g_SA_part(Sqrt(Mul(sfac, args[1][2])),
                 Mul(args[2][2], Rat(25, 1000)),
                 Mul(args[3][2], Rat(1, 10000))) # Zero

(* a slope a step can divide by *)
Usable(s) == IsNum(s) /\ s # Zero

(* C28: in each inversion a round that starts with a zero residual, and   *)
(* whose two slopes (the one it is entered with and the one it takes at    *)
(* the midpoint) are numbers other than zero, leaves the estimate as it    *)
(* is.  A call whose initial estimate has a zero residual, with the        *)
(* initial slope and the slope at that estimate other than zero, ends on   *)
(* its initial estimate: osmotic_pressure_t_exact then returns 235.4684,   *)
(* t_maxdensity_exact the initial estimate, SA_from_rho_t_exact the        *)
(* initial estimate where it is not flagged.                                *)
C28_ZeroResidualIsFixedPoint ==
    /\ [][IsRound
          => \A i \in Idx :
                (Residual(i, est[i]) = Zero /\ Usable(slope[i])
                 /\ Usable(slope'[i]))
                => est'[i] = est[i]]_vars
    /\ [](pc = "done" /\ fn \in Inversions
          => \A i \in Idx :
                (Residual(i, est0[i]) = Zero /\ Usable(InitialSlope(i))
                 /\ Usable(SlopeAt(i, est0[i])))
                => /\ est[i] = est0[i]
                   /\ fn = "osmotic_pressure_t_exact"
                      => out[i] = Rat(2354684, 10000)
                   /\ fn = "t_maxdensity_exact" => out[i] = est0[i]
                   /\ fn = "SA_from_rho_t_exact"
                      => out[i] = IF Ior[i] THEN NaN ELSE est0[i])

(* an osmotic pressure returned from an initial guess that was exact *)
C28_Witness ==
    /\ Returned("osmotic_pressure_t_exact")
    /\ k = 2
    /\ \E i \in Idx :
          /\ IsNum(est0[i])
          /\ Residual(i, est0[i]) = Zero
          /\ Usable(InitialSlope(i)) /\ Usable(slope[i])
          /\ est[i] = est0[i]
          /\ out[i] = Rat(2354684, 10000)

(* both sides are within the range of the model *)
InModel(x, y) == ~IsOvf(x) /\ ~IsOvf(y)

(* kappa_const cv = kappa cp at element i, cv, kappa_const, kappa and cp   *)
(* being the four values given                                              *)
SameRatio(kappa_const, cv, kappa, cp) ==
    InModel(Mul(kappa_const, cv), Mul(kappa, cp))
    => Mul(kappa_const, cv) = Mul(kappa, cp)

(* C29: where g_P, g_TT and g_PP are numbers other than zero,              *)
(* kappa_const_t_exact * isochoric_heat_cap_t_exact                         *)
(* = kappa_t_exact * cp_t_exact: each of the four, when it is the function *)
(* called, returns the value the identity gives it from the other three.   *)
C29_CompressibilityRatioIsHeatCapacityRatio ==
    \A i \in Idx :
       (/\ pc = "done"
        /\ fn \in {"kappa_const_t_exact", "isochoric_heat_cap_t_exact",
                   "kappa_t_exact", "cp_t_exact"}
        /\ Usable(G(0, 0, 1, i)) /\ Usable(G(0, 2, 0, i))
        /\ Usable(G(0, 0, 2, i)))
       => SameRatio(
             IF fn = "kappa_const_t_exact" THEN out[i]
             ELSE kappa_const_t_exact(args[1][i], args[2][i], args[3][i]),
             IF fn = "isochoric_heat_cap_t_exact" THEN out[i]
             ELSE isochoric_heat_cap_t_exact(args[1][i], args[2][i], args[3][i]),
             IF fn = "kappa_t_exact" THEN out[i]
             ELSE kappa_t_exact(args[1][i], args[2][i], args[3][i]),
             IF fn = "cp_t_exact" THEN out[i]
             ELSE cp_t_exact(args[1][i], args[2][i], args[3][i]))

(* an isochoric heat capacity that differs from cp, both products numbers *)
C29_Witness ==
    /\ Returned("isochoric_heat_cap_t_exact")
    /\ \A i \in Idx :
          /\ Usable(G(0, 0, 1, i)) /\ Usable(G(0, 2, 0, i))
          /\ Usable(G(0, 0, 2, i))
          /\ IsNum(out[i])
          /\ out[i] # cp_t_exact(args[1][i], args[2][i], args[3][i])
          /\ IsNum(Mul(kappa_const_t_exact(args[1][i], args[2][i], args[3][i]),
                       out[i]))
          /\ Mul(kappa_const_t_exact(args[1][i], args[2][i], args[3][i]), out[i])
             = Mul(kappa_t_exact(args[1][i], args[2][i], args[3][i]),
                   cp_t_exact(args[1][i], args[2][i], args[3][i]))

============================================================================
